---- MODULE Spec2Model ----
(***************************************************************************)
(* Model of the EDW pairing analyzer (edw_reporter.py, app.py).            *)
(*                                                                         *)
(* Text is a sequence of tokens, each standing for a literal piece of the  *)
(* extracted PDF text:                                                     *)
(*   nl    "\n"                                                            *)
(*   trip  "Trip Id: <a>"          (no newline of its own)                 *)
(*   brief "Briefing"                                                      *)
(*   ann   "(<a>)ZH:<b>"           local hour a, Zulu minute b             *)
(* The regular expressions of the source are modelled on this token text,  *)
(* including what each match consumes and the \b word boundaries.          *)
(***************************************************************************)
EXTENDS Integers, Sequences, FiniteSets, TLC

VARIABLES pc, text, block, is_edw, trips, outputs, status,
          dom, ac, bid, files, results, xlsx

vars == <<pc, text, block, is_edw, trips, outputs, status,
          dom, ac, bid, files, results, xlsx>>

----------------------------------------------------------------------------
(* Bounds of the model *)

MaxBlockLen == 3
MaxTextLen == 5
MaxTrips == 3
MaxLabelLen == 2

----------------------------------------------------------------------------
(* Tokens *)

NL == [k |-> "nl", a |-> 0, b |-> 0]
Briefing == [k |-> "brief", a |-> 0, b |-> 0]
TripTok(n) == [k |-> "trip", a |-> n, b |-> 0]
Ann(lh, zm) == [k |-> "ann", a |-> lh, b |-> zm]

\* first / last character of the token's text is a word character (\w)
FirstIsWord(t) == t.k \in {"trip", "brief"}
LastIsWord(t) == t.k \in {"trip", "brief", "ann"}

\* all sequences over S of length 0..n
SeqsUpTo(S, n) == UNION {[1..m -> S] : m \in 0..n}

----------------------------------------------------------------------------
(* EDW window and classifier *)

WIN_START == 2*60 + 30
WIN_END == 5*60

_to_min(hr, mn) == (hr % 24) * 60 + mn

_in_window_strict_end(hr, mn) ==
    LET t == _to_min(hr, mn) IN WIN_START <= t /\ t < WIN_END

_in_window(hr, mn) ==
    LET t == _to_min(hr, mn) IN WIN_START <= t /\ t <= WIN_END

_crosses_window(dep_h, dep_m, arr_h, arr_m) ==
    LET d == _to_min(dep_h, dep_m)
        a0 == _to_min(arr_h, arr_m)
        a == IF a0 < d THEN a0 + 24*60 ELSE a0
    IN (d <= WIN_START /\ WIN_START <= a) \/ (d <= WIN_END /\ WIN_END <= a)

\* str.splitlines(): the pieces between "\n", no trailing empty piece
RECURSIVE splitlines(_)
splitlines(s) ==
    IF s = <<>> THEN <<>>
    ELSE IF \E i \in 1..Len(s) : s[i] = NL
         THEN LET i == CHOOSE j \in 1..Len(s) :
                           s[j] = NL /\ \A l \in 1..(j-1) : s[l] # NL
              IN <<SubSeq(s, 1, i-1)>> \o splitlines(SubSeq(s, i+1, Len(s)))
         ELSE <<s>>

\* PAIR_RE.findall(line): the annotations of the line, left to right
RECURSIVE PAIR_RE_findall(_)
PAIR_RE_findall(line) ==
    IF line = <<>> THEN <<>>
    ELSE IF Head(line).k = "ann"
         THEN <<Head(line)>> \o PAIR_RE_findall(Tail(line))
         ELSE PAIR_RE_findall(Tail(line))

\* the condition under which a pair (p, q) of one line returns True
PairIsEdw(p, q) ==
    \/ _in_window(p.a, p.b)
    \/ _in_window(q.a, q.b)
    \/ _crosses_window(p.a, p.b, q.a, q.b)

\* body of the loop over lines: TRUE when this line makes the function return True
LineIsEdw(line) ==
    LET pairs == PAIR_RE_findall(line) IN
    IF Len(pairs) >= 2
    THEN \E i \in 1..(Len(pairs) - 1) : PairIsEdw(pairs[i], pairs[i+1])
    ELSE IF Len(pairs) = 1
         THEN _in_window(pairs[1].a, pairs[1].b)
         ELSE FALSE

_duty_is_edw(block_text) ==
    LET lines == splitlines(block_text) IN
    \E n \in 1..Len(lines) : LineIsEdw(lines[n])

----------------------------------------------------------------------------
(* Trip segmenter and duty-block splitter *)

\* index just past the run of "\n" that follows position j, for \s*\n
RECURSIVE SkipNL(_, _)
SkipNL(s, j) ==
    IF j <= Len(s) /\ s[j] = NL THEN SkipNL(s, j + 1) ELSE j

\* one attempt of (?:^|\n)Trip Id:\s*(\d+)\s*\n at position i: the first
\* position after the match, or 0 when there is no match at i.  ^ matches
\* only at the start of the text; \s*\n takes the whole run of newlines
\* after the digits and needs at least one.
MarkerAt(s, i) ==
    IF i = 1 /\ s[1].k = "trip" THEN 1
    ELSE IF s[i] = NL /\ i + 1 <= Len(s) /\ s[i+1].k = "trip" THEN i + 1
    ELSE 0

TripMatchEnd(s, i) ==
    LET j == MarkerAt(s, i) IN
    IF j = 0 THEN 0
    ELSE IF j + 1 <= Len(s) /\ s[j+1] = NL THEN SkipNL(s, j + 1)
    ELSE 0

\* re.split with one capture group: <<pre, id1, text1, id2, text2, ...>>,
\* matches found left to right, each search resuming after the last match
RECURSIVE re_split_trip(_, _, _)
re_split_trip(s, i, start) ==
    IF i > Len(s) THEN <<SubSeq(s, start, Len(s))>>
    ELSE LET e == TripMatchEnd(s, i) IN
         IF e = 0 THEN re_split_trip(s, i + 1, start)
         ELSE LET j == MarkerAt(s, i) IN
              <<SubSeq(s, start, i - 1), s[j].a>> \o re_split_trip(s, e, e)

_split_trips(txt) ==
    LET parts == re_split_trip(txt, 1, 1) IN
    [n \in 1..((Len(parts) - 1) \div 2) |->
        [tid |-> parts[2*n], content |-> parts[2*n + 1]]]

\* \bBriefing\b matches the token at i when no word character touches it
BriefingAt(s, i) ==
    /\ s[i].k = "brief"
    /\ i > 1 => ~LastIsWord(s[i-1])
    /\ i < Len(s) => ~FirstIsWord(s[i+1])

RECURSIVE re_split_briefing(_, _, _)
re_split_briefing(s, i, start) ==
    IF i > Len(s) THEN <<SubSeq(s, start, Len(s))>>
    ELSE IF BriefingAt(s, i)
         THEN <<SubSeq(s, start, i - 1)>> \o re_split_briefing(s, i + 1, i + 1)
         ELSE re_split_briefing(s, i + 1, start)

_split_duty_blocks(trip_text) ==
    LET parts == re_split_briefing(trip_text, 1, 1) IN
    IF Len(parts) > 1 THEN Tail(parts) ELSE <<>>

----------------------------------------------------------------------------
(* analyze_pdf: per-trip records and statistics *)

\* a float percentage, kept in tenths after round(.., 1); nan is the
\* result of 0/0 on pandas columns, inf of x/0
Num(t) == [kind |-> "num", tenths |-> t]
NaN == [kind |-> "nan", tenths |-> 0]
Inf == [kind |-> "inf", tenths |-> 0]

\* round(n / d * 100, 1) for d > 0, in tenths, ties to even (an exact tie
\* needs a denominator divisible by 16, beyond the sizes explored here, so
\* the float result and the exact one agree)
RoundPct(n, d) ==
    LET x == 1000 * n
        q == x \div d
        r == x % d
    IN IF 2 * r < d THEN q
       ELSE IF 2 * r > d THEN q + 1
       ELSE IF q % 2 = 0 THEN q ELSE q + 1

\* (column / column * 100).round(1): no guard, division by zero yields
\* nan or inf and does not raise
SeriesPct(n, d) ==
    IF d = 0 THEN (IF n = 0 THEN NaN ELSE Inf) ELSE Num(RoundPct(n, d))

\* round(n / d * 100, 1) if d else 0.0
GuardedPct(n, d) == IF d # 0 THEN Num(RoundPct(n, d)) ELSE Num(0)

RECURSIVE SumSeq(_)
SumSeq(q) == IF q = <<>> THEN 0 ELSE Head(q) + SumSeq(Tail(q))

\* the elements of a finite set of integers in ascending order
RECURSIVE SortedSeq(_)
SortedSeq(S) ==
    IF S = {} THEN <<>>
    ELSE LET m == CHOOSE x \in S : \A y \in S : x <= y
         IN <<m>> \o SortedSeq(S \ {m})

CountTrue(flags) == Cardinality({j \in 1..Len(flags) : flags[j]})

\* the mutation: every duty day is counted as an EDW day
MakeRecord_count_all(tid, content) ==
    LET blocks == _split_duty_blocks(content)
        flags == [j \in 1..Len(blocks) |-> _duty_is_edw(blocks[j])]
    IN [TripId |-> tid,
        DutyDays |-> Len(blocks),
        EDW_AnyDutyDay |-> \E j \in 1..Len(flags) : flags[j],
        EDW_Days_Count |-> Len(flags)]

\* lines 83-90: the record of one trip
MakeRecord(tid, content) ==
    LET blocks == _split_duty_blocks(content)
        flags == [j \in 1..Len(blocks) |-> _duty_is_edw(blocks[j])]
    IN [TripId |-> tid,
        DutyDays |-> Len(blocks),
        EDW_AnyDutyDay |-> \E j \in 1..Len(flags) : flags[j],
        EDW_Days_Count |-> CountTrue(flags)]

\* the mutation: trips without duty blocks are left out
RECURSIVE Records_drop_empty(_)
Records_drop_empty(ts) ==
    IF ts = <<>> THEN <<>>
    ELSE LET r == MakeRecord(Head(ts).tid, Head(ts).content) IN
         (IF r.DutyDays = 0 THEN <<>> ELSE <<r>>) \o Records_drop_empty(Tail(ts))

\* lines 81-90: one record per trip, in segmenter order
Records(ts) == [n \in 1..Len(ts) |-> MakeRecord(ts[n].tid, ts[n].content)]

\* sort_values("TripId"): the default sort is not stable, rows with equal
\* TripId may come out in any order
SortValues(records) ==
    LET n == Len(records)
        Perms == {f \in [1..n -> 1..n] : \A x, y \in 1..n : x # y => f[x] # f[y]}
    IN {[m \in 1..n |-> records[f[m]]] : f \in
           {g \in Perms : \A x \in 1..(n-1) :
                records[g[x]].TripId <= records[g[x+1]].TripId}}

Col(tf, S) == {m \in 1..Len(tf) : tf[m].DutyDays \in S}

\* lines 93-95
LenSummary(tf) ==
    LET vals == SortedSeq({tf[m].DutyDays : m \in 1..Len(tf)}) IN
    [v \in 1..Len(vals) |->
        LET cnt == Cardinality(Col(tf, {vals[v]})) IN
        [DutyDays |-> vals[v], Trips |-> cnt,
         Percent |-> SeriesPct(cnt, Len(tf))]]

\* lines 97-106
EdwSummary(tf) ==
    LET total == Len(tf)
        edw_trips == Cardinality({m \in 1..total : tf[m].EDW_AnyDutyDay})
        edw_pct == GuardedPct(edw_trips, total)
    IN [day_trips |-> total - edw_trips, edw_trips |-> edw_trips,
        day_pct |-> Num(1000 - edw_pct.tenths), edw_pct |-> edw_pct]

\* the mutation: the length-weighted numerator takes the trips that are not EDW
Weighting_inverted_mask(tf) ==
    LET total_days == SumSeq([m \in 1..Len(tf) |-> tf[m].DutyDays])
        total_edw_days == SumSeq([m \in 1..Len(tf) |-> tf[m].EDW_Days_Count])
        edw_trip_days == SumSeq([m \in 1..Len(tf) |->
                            IF tf[m].EDW_AnyDutyDay THEN 0 ELSE tf[m].DutyDays])
        edw_trips == Cardinality({m \in 1..Len(tf) : tf[m].EDW_AnyDutyDay})
    IN [total_days |-> total_days,
        total_edw_days |-> total_edw_days,
        edw_trip_days |-> edw_trip_days,
        trip_weighted |-> SeriesPct(edw_trips, Len(tf)),
        length_weighted_trip |-> GuardedPct(edw_trip_days, total_days),
        dutyday_weighted |-> GuardedPct(total_edw_days, total_days)]

\* lines 108-112; the three sums are kept next to the percentages
Weighting(tf) ==
    LET total_days == SumSeq([m \in 1..Len(tf) |-> tf[m].DutyDays])
        total_edw_days == SumSeq([m \in 1..Len(tf) |-> tf[m].EDW_Days_Count])
        edw_trip_days == SumSeq([m \in 1..Len(tf) |->
                            IF tf[m].EDW_AnyDutyDay THEN tf[m].DutyDays ELSE 0])
        edw_trips == Cardinality({m \in 1..Len(tf) : tf[m].EDW_AnyDutyDay})
    IN [total_days |-> total_days,
        total_edw_days |-> total_edw_days,
        edw_trip_days |-> edw_trip_days,
        trip_weighted |-> SeriesPct(edw_trips, Len(tf)),
        length_weighted_trip |-> GuardedPct(edw_trip_days, total_days),
        dutyday_weighted |-> GuardedPct(total_edw_days, total_days)]

\* lines 114-121
ByLength(tf) ==
    LET vals == SortedSeq({tf[m].DutyDays : m \in 1..Len(tf)}) IN
    [v \in 1..Len(vals) |->
        LET rows == Col(tf, {vals[v]})
            n_trips == Cardinality(rows)
            edw_trips == Cardinality({m \in rows : tf[m].EDW_AnyDutyDay})
            edw_days == SumSeq([m \in 1..Len(tf) |->
                            IF m \in rows THEN tf[m].EDW_Days_Count ELSE 0])
        IN [DutyDays |-> vals[v], Trips |-> n_trips,
            EDW_Trips |-> edw_trips, EDW_Days |-> edw_days,
            EDW_TripPct |-> SeriesPct(edw_trips, n_trips),
            Total_DutyDays |-> vals[v] * n_trips,
            EDW_DutyDayPct |-> SeriesPct(edw_days, vals[v] * n_trips)]]

\* lines 129-135
Outputs(tf) ==
    [trip_flags |-> tf,
     len_summary |-> LenSummary(tf),
     edw_summary |-> EdwSummary(tf),
     by_length |-> ByLength(tf),
     weighting_summary |-> Weighting(tf)]

\* the values analyze_pdf can return for the text, or <<"KeyError">>: with no
\* record the frame has no TripId column and sort_values raises
analyze_pdf(txt) ==
    LET records == Records(_split_trips(txt)) IN
    IF records = <<>> THEN {<<"KeyError">>}
    ELSE {<<"ok", Outputs(tf)>> : tf \in SortValues(records)}

----------------------------------------------------------------------------
(* Specification SpecPdf: analyze_pdf applied to an extracted text *)

W == Ann(3, 45)
D == Ann(1, 10)
TripIds == {1, 2}

TextTokens == {TripTok(n) : n \in TripIds} \cup {NL, Briefing, W, D}

ShortTexts == SeqsUpTo(TextTokens, MaxTextLen)

\* the text of well separated trips: marker line, content, newline
Contents == {<<D>>, <<Briefing>>, <<Briefing, W>>, <<Briefing, NL, Briefing>>,
             <<Briefing, NL, Briefing, W>>, <<Briefing, W, NL, Briefing, W>>}

RECURSIVE JoinTrips(_)
JoinTrips(ts) ==
    IF ts = <<>> THEN <<>>
    ELSE <<TripTok(Head(ts)[1]), NL>> \o Head(ts)[2] \o <<NL>> \o JoinTrips(Tail(ts))

TripTexts == {JoinTrips(ts) : ts \in SeqsUpTo(TripIds \X Contents, MaxTrips)}

InitPdf ==
    /\ pc = "start"
    /\ text \in ShortTexts \cup TripTexts
    /\ trips = <<>> /\ outputs = <<>> /\ status = "none"
    /\ block = <<>> /\ is_edw = FALSE
    /\ dom = <<>> /\ ac = <<>> /\ bid = <<>>
    /\ files = {} /\ results = <<>> /\ xlsx = <<>>

AnalyzePdf ==
    /\ pc = "start"
    /\ trips' = _split_trips(text)
    /\ \E res \in analyze_pdf(text) :
          /\ status' = res[1]
          /\ outputs' = IF res[1] = "ok" THEN res[2] ELSE <<>>
    /\ pc' = "done"
    /\ UNCHANGED <<text, block, is_edw, dom, ac, bid, files, results, xlsx>>

NextPdf == AnalyzePdf

SpecPdf == InitPdf /\ [][NextPdf]_vars

----------------------------------------------------------------------------
(* Specification SpecEDW: the classifier applied to a duty block *)

\* local clock times used in multi-annotation blocks
EdwTimes == {Ann(1, 10), Ann(2, 29), Ann(2, 30), Ann(3, 45),
             Ann(5, 0), Ann(5, 1), Ann(6, 0), Ann(23, 0)}

AllTimes == {Ann(h, m) : h \in 0..23, m \in 0..59}

\* blocks with at most one annotation, any clock time, anywhere among newlines
PointBlocks ==
    {pre \o mid \o post : pre \in {<<>>, <<NL>>}, post \in {<<>>, <<NL>>},
                          mid \in {<<>>} \cup {<<t>> : t \in AllTimes}}

EdwBlocks == SeqsUpTo(EdwTimes \cup {NL}, MaxBlockLen) \cup PointBlocks

Idle ==
    /\ text = <<>> /\ trips = <<>> /\ outputs = <<>> /\ status = "none"
    /\ dom = <<>> /\ ac = <<>> /\ bid = <<>>
    /\ files = {} /\ results = <<>> /\ xlsx = <<>>

InitEDW ==
    /\ pc = "start"
    /\ block \in EdwBlocks
    /\ is_edw = FALSE
    /\ Idle

Classify ==
    /\ pc = "start"
    /\ is_edw' = _duty_is_edw(block)
    /\ pc' = "done"
    /\ UNCHANGED <<text, block, trips, outputs, status,
                   dom, ac, bid, files, results, xlsx>>

NextEDW == Classify

SpecEDW == InitEDW /\ [][NextEDW]_vars

----------------------------------------------------------------------------
(* Claims about the classifier *)

\* all annotations of a block, left to right, top to bottom
BlockAnns(b) == PAIR_RE_findall(b)

InWin(t) == 150 <= 60 * t.a + t.b /\ 60 * t.a + t.b <= 300

\* C2: a block with exactly one annotation (hour 0..23, minute 0..59) is EDW
\* iff 150 <= 60h+m <= 300; a block with no annotation is not EDW.
C2_SinglePoint ==
    pc = "done" =>
        /\ Len(BlockAnns(block)) = 1 => (is_edw <=> InWin(BlockAnns(block)[1]))
        /\ Len(BlockAnns(block)) = 0 => ~is_edw

C2_Witness ==
    /\ pc = "done"
    /\ block = <<NL, Ann(5, 0)>>
    /\ is_edw
\* the pair test as the claims state it: an endpoint in [150, 300], or the
\* interval, with the arrival moved to the next day when earlier, contains
\* 150 or 300
ToMinutes(t) == 60 * t.a + t.b

ClaimCrosses(p, q) ==
    LET d == ToMinutes(p)
        a == IF ToMinutes(q) < d THEN ToMinutes(q) + 1440 ELSE ToMinutes(q)
    IN (d <= 150 /\ 150 <= a) \/ (d <= 300 /\ 300 <= a)

ClaimPair(p, q) == InWin(p) \/ InWin(q) \/ ClaimCrosses(p, q)

\* C1: a block whose annotations, collected over all its lines, number two or
\* more is EDW iff some consecutive pair of that block-wide sequence has an
\* endpoint in the window or crosses it, wherever the annotations sit.
C1_BlockWidePairs ==
    (pc = "done" /\ Len(BlockAnns(block)) >= 2) =>
        (is_edw <=> \E i \in 1..(Len(BlockAnns(block)) - 1) :
                        ClaimPair(BlockAnns(block)[i], BlockAnns(block)[i+1]))

\* the leg from departure to arrival (arrival on the next day when its clock
\* time is earlier) includes a local clock time in 02:30-05:00
LegTouchesWindow(p, q) ==
    LET d == ToMinutes(p)
        a == IF ToMinutes(q) < d THEN ToMinutes(q) + 1440 ELSE ToMinutes(q)
    IN \E t \in d..a : 150 <= t % 1440 /\ t % 1440 <= 300

\* C8: a (departure, arrival) pair is classified EDW exactly when the leg
\* includes some local clock time in 02:30-05:00, overnight legs included.
C8_LegTouches ==
    (pc = "done" /\ Len(block) = 2 /\ Len(BlockAnns(block)) = 2) =>
        (is_edw <=> LegTouchesWindow(block[1], block[2]))
----------------------------------------------------------------------------
(* Claims about analyze_pdf *)

\* ids of the lines that consist of a trip marker: the marker starts the
\* line and a newline ends it
RECURSIVE MarkerLineIdsFrom(_, _)
MarkerLineIdsFrom(s, i) ==
    IF i > Len(s) THEN <<>>
    ELSE IF /\ s[i].k = "trip"
            /\ (i = 1 \/ s[i-1] = NL)
            /\ i < Len(s) /\ s[i+1] = NL
         THEN <<s[i].a>> \o MarkerLineIdsFrom(s, i + 1)
         ELSE MarkerLineIdsFrom(s, i + 1)

MarkerLineIds(s) == MarkerLineIdsFrom(s, 1)

\* C3: when the text contains no trip marker, analyze_pdf does not raise and
\* returns a result with zero trips.
C3_NoTripsNoRaise ==
    (pc = "done" /\ trips = <<>>) =>
        (status = "ok" /\ outputs.trip_flags = <<>>)

\* C4: every percentage whose denominator is 0 is 0.0; the by-length row of
\* duty_day_count 0 has EDW_DutyDayPct = 0.0.
C4_ZeroDenominator ==
    (pc = "done" /\ status = "ok") =>
        /\ \A v \in 1..Len(outputs.by_length) :
              /\ outputs.by_length[v].Total_DutyDays = 0 =>
                     outputs.by_length[v].EDW_DutyDayPct = Num(0)
              /\ outputs.by_length[v].Trips = 0 =>
                     outputs.by_length[v].EDW_TripPct = Num(0)
        /\ outputs.weighting_summary.total_days = 0 =>
              /\ outputs.weighting_summary.length_weighted_trip = Num(0)
              /\ outputs.weighting_summary.dutyday_weighted = Num(0)

\* C5: _split_trips yields one trip per marker line, in order; no trip's
\* text contains a marker line.
C5_OneTripPerMarker ==
    pc = "done" =>
        /\ [n \in 1..Len(trips) |-> trips[n].tid] = MarkerLineIds(text)
        /\ \A n \in 1..Len(trips) :
              MarkerLineIds(<<NL>> \o trips[n].content) = <<>>

HasBriefing(s) == \E i \in 1..Len(s) : s[i].k = "brief"

Bijections(n) ==
    {f \in [1..n -> 1..n] : \A x, y \in 1..n : x # y => f[x] # f[y]}

\* C6: the per-trip table has exactly one row per trip of the segmenter, and
\* a trip without duty-boundary token has the row (0, false, 0).
C6_OneRowPerTrip ==
    (pc = "done" /\ status = "ok") =>
        /\ Len(outputs.trip_flags) = Len(trips)
        /\ \E f \in Bijections(Len(trips)) :
              \A m \in 1..Len(trips) :
                 LET row == outputs.trip_flags[m] IN
                 /\ row.TripId = trips[f[m]].tid
                 /\ ~HasBriefing(trips[f[m]].content) =>
                        /\ row.DutyDays = 0
                        /\ row.EDW_AnyDutyDay = FALSE
                        /\ row.EDW_Days_Count = 0

C6_Witness ==
    /\ pc = "done" /\ status = "ok"
    /\ Len(trips) = 2
    /\ ~HasBriefing(trips[1].content)
    /\ HasBriefing(trips[2].content)
    /\ \E m \in 1..2 : outputs.trip_flags[m].DutyDays = 0

\* C7: every row has 0 <= EDW_Days_Count <= DutyDays and EDW_AnyDutyDay
\* exactly when EDW_Days_Count > 0.
C7_RowInvariant ==
    (pc = "done" /\ status = "ok") =>
        \A m \in 1..Len(outputs.trip_flags) :
           LET row == outputs.trip_flags[m] IN
           /\ 0 <= row.EDW_Days_Count
           /\ row.EDW_Days_Count <= row.DutyDays
           /\ row.EDW_AnyDutyDay <=> (row.EDW_Days_Count > 0)

C7_Witness ==
    /\ pc = "done" /\ status = "ok"
    /\ \E m \in 1..Len(outputs.trip_flags) :
          /\ outputs.trip_flags[m].EDW_Days_Count = 1
          /\ outputs.trip_flags[m].DutyDays = 2
          /\ outputs.trip_flags[m].EDW_AnyDutyDay

\* C9: sum of EDW days <= duty days of the EDW trips <= all duty days; the
\* duty-day-weighted percentage <= the length-weighted one <= 100.
C9_WeightingOrder ==
    (pc = "done" /\ status = "ok") =>
        LET ws == outputs.weighting_summary IN
        /\ ws.total_edw_days <= ws.edw_trip_days
        /\ ws.edw_trip_days <= ws.total_days
        /\ ws.dutyday_weighted.kind = "num"
        /\ ws.length_weighted_trip.kind = "num"
        /\ ws.dutyday_weighted.tenths <= ws.length_weighted_trip.tenths
        /\ ws.length_weighted_trip.tenths <= 1000

C9_Witness ==
    /\ pc = "done" /\ status = "ok"
    /\ 0 < outputs.weighting_summary.total_edw_days
    /\ outputs.weighting_summary.total_edw_days
          < outputs.weighting_summary.edw_trip_days
    /\ outputs.weighting_summary.edw_trip_days
          < outputs.weighting_summary.total_days

----------------------------------------------------------------------------
(* Specification SpecApp: the Run Analysis button of the front end *)

Space == " "
LabelChars == {Space, "O"}
Labels == SeqsUpTo(LabelChars, MaxLabelLen)

\* str.strip()
RECURSIVE lstrip(_)
lstrip(s) == IF s # <<>> /\ Head(s) = Space THEN lstrip(Tail(s)) ELSE s

RECURSIVE rstrip(_)
rstrip(s) ==
    IF s # <<>> /\ s[Len(s)] = Space THEN rstrip(SubSeq(s, 1, Len(s) - 1)) ELSE s

strip(s) == rstrip(lstrip(s))

\* x or default
Or(s, default) == IF s # <<>> THEN s ELSE default

\* f"{domicile}_{aircraft}_Bid{bid_period}_EDW_Report_Data.xlsx"
ExcelName(domicile, aircraft, bid_period) ==
    domicile \o <<"_">> \o aircraft \o <<"_Bid">> \o bid_period
             \o <<"_EDW_Report_Data.xlsx">>

\* f"{domicile}_{aircraft}_Bid{bid_period}_Report_WITH_LengthWeighted.pdf"
ReportName(domicile, aircraft, bid_period) ==
    domicile \o <<"_">> \o aircraft \o <<"_Bid">> \o bid_period
             \o <<"_Report_WITH_LengthWeighted.pdf">>

CsvNames == {<<"trip_level_edw_flags.csv">>, <<"trip_length_summary.csv">>,
             <<"edw_vs_day_summary.csv">>, <<"edw_by_length.csv">>,
             <<"edw_weighting_summary.csv">>, <<"edw_trip_ids.csv">>}

ChartNames == {<<"trip_length_chart.png">>, <<"trip_length_chart.jpg">>,
               <<"trip_length_percent_chart.png">>, <<"trip_length_percent_chart.jpg">>,
               <<"edw_vs_day_percent_chart.png">>, <<"edw_vs_day_percent_chart.jpg">>,
               <<"edw_weighting_three_way.png">>, <<"edw_weighting_three_way.jpg">>}

\* what run_edw_report leaves in output_dir and returns, for each value
\* analyze_pdf can produce
run_edw_report(txt, domicile, aircraft, bid_period) ==
    {IF res[1] = "ok"
     THEN [status |-> "ok", outputs |-> res[2],
           files |-> CsvNames \cup ChartNames
                     \cup {ReportName(domicile, aircraft, bid_period),
                           ExcelName(domicile, aircraft, bid_period)},
           results |-> [report_pdf |-> ReportName(domicile, aircraft, bid_period),
                        excel |-> ExcelName(domicile, aircraft, bid_period)]]
     ELSE [status |-> res[1], outputs |-> <<>>, files |-> {}, results |-> <<>>]
     : res \in analyze_pdf(txt)}

AppTexts == {<<TripTok(1), NL, Briefing, W>>, <<D>>}

InitApp ==
    /\ pc = "start"
    /\ text \in AppTexts
    /\ dom \in Labels /\ ac \in Labels /\ bid \in Labels
    /\ trips = <<>> /\ outputs = <<>> /\ status = "none"
    /\ block = <<>> /\ is_edw = FALSE
    /\ files = {} /\ results = <<>> /\ xlsx = <<>>

\* app.py lines 24-54: run the report in a fresh directory, then read the
\* workbook for the download button
RunAnalysis ==
    /\ pc = "start"
    /\ \E r \in run_edw_report(text, Or(strip(dom), <<"D", "O", "M">>),
                               Or(strip(ac), <<"A", "C">>),
                               Or(strip(bid), <<"0", "0", "0", "0">>)) :
          /\ outputs' = r.outputs
          /\ files' = r.files
          /\ results' = r.results
          /\ IF r.status # "ok"
             THEN status' = r.status /\ xlsx' = <<>>
             ELSE /\ xlsx' = ExcelName(dom, ac, bid)
                  /\ status' = IF xlsx' \in files' THEN "ok"
                               ELSE "FileNotFoundError"
    /\ trips' = _split_trips(text)
    /\ pc' = "done"
    /\ UNCHANGED <<text, block, is_edw, dom, ac, bid>>

NextApp == RunAnalysis

SpecApp == InitApp /\ [][NextApp]_vars

\* C10: the Excel path the front end reads after a run is the path to which
\* run_edw_report wrote the workbook, whatever the three labels.
C10_ReadsWrittenPath ==
    (pc = "done" /\ status \in {"ok", "FileNotFoundError"}) =>
        (xlsx = results.excel /\ xlsx \in files)
====
